---- MODULE Spec2Model ----
(***************************************************************************)
(* A model of src/logger.js: the logger returned by createLogger, with its *)
(* level filter, hook registry, enable flag and group lifecycle.  The      *)
(* console is modelled by the sequence of calls one operation makes on it. *)
(***************************************************************************)
EXTENDS Integers, Sequences, FiniteSets, TLC

\* ------------------------------------------------------------------ bounds

\* onLog calls made on the logger (each returns one unsubscribe closure).
MaxOnLog == 3

\* group calls whose callback's Promise has not yet been followed by the
\* reaction group attached to it.
MaxGroups == 2

\* ------------------------------------------------------------- JS values

Undefined == "undefined"

\* Boolean(value), for the values setEnabled is called with (JS literals).
ToBoolean(value) == value \notin {"false", "0", "''", "null", "undefined", "NaN"}

\* Array.prototype.join
RECURSIVE Join(_, _)
Join(parts, sep) ==
    IF Len(parts) = 0 THEN ""
    ELSE IF Len(parts) = 1 THEN parts[1]
    ELSE parts[1] \o sep \o Join(Tail(parts), sep)

\* String.prototype.toUpperCase on the level names.
ToUpperCase(level) ==
    CASE level = "debug"   -> "DEBUG"
      [] level = "log"     -> "LOG"
      [] level = "info"    -> "INFO"
      [] level = "warn"    -> "WARN"
      [] level = "error"   -> "ERROR"
      [] level = "success" -> "SUCCESS"

\* ------------------------------------------------------ module constants

LogLevel == {"debug", "log", "info", "warn", "error", "success"}

LOG_LEVELS ==
    [debug |-> 0, log |-> 1, info |-> 2, warn |-> 3, error |-> 4, success |-> 5]

DEFAULT_STYLES ==
    [debug   |-> "color: #6272a4;",
     log     |-> "color: #f8f8f2;",
     info    |-> "color: #8be9fd; font-weight: bold;",
     warn    |-> "color: #f1fa8c; font-weight: bold;",
     error   |-> "color: #ff5555; font-weight: bold;",
     success |-> "color: #50fa7b; font-weight: bold;"]

\* `[${timeFormatter.format(new Date())}]`: the wall clock is outside the
\* model, so the formatted time is one opaque token.
getTimestamp == "[hh:mm:ss]"

\* --------------------------------------------------------- console calls

ConsoleLog(prefix, style, args) ==
    [ev |-> "console.log", prefix |-> prefix, style |-> style, args |-> args]

ConsoleWarn(e) ==
    [ev |-> "console.warn", args |-> <<"[Logger] Hook error:", e>>]

ConsoleGroupCollapsed(label) ==
    [ev |-> "console.groupCollapsed", label |-> label,
     style |-> "font-weight: bold; color: #888;"]

ConsoleGroupEnd == [ev |-> "console.groupEnd"]

printStyledLog(level, style, ts, ns, args) ==
    LET parts == (IF ts THEN <<getTimestamp>> ELSE <<>>)
                 \o (IF ns \notin {Undefined, ""} THEN <<"[" \o ns \o "]">> ELSE <<>>)
                 \o <<"[" \o ToUpperCase(level) \o "]">>
        prefix == "%c" \o Join(parts, " ")
    IN  <<ConsoleLog(prefix, style, args)>>

\* ------------------------------------------------- insertion-ordered Set

\* Set.prototype.add: a value already present keeps its place.
SetAdd(s, v) ==
    IF \E i \in 1..Len(s) : s[i] = v THEN s ELSE Append(s, v)

\* Set.prototype.delete
SetDelete(s, v) == SelectSeq(s, LAMBDA x : x # v)

SetHas(s, v) == \E i \in 1..Len(s) : s[i] = v

\* ---------------------------------------------------------------- inputs

\* The option objects createLogger is called with.
OptionCases ==
    { [level |-> l, namespace |-> Undefined, showTimestamp |-> FALSE,
       styles |-> <<>>] :
         l \in {Undefined, "log", "info", "success", "verbose"} }
    \cup
    { [level |-> "warn", namespace |-> "app", showTimestamp |-> TRUE,
       styles |-> [warn |-> "color: orange;"]] }

\* The callbacks handed to onLog, and what each does when it is invoked.
Callbacks == {"h1", "h2", "h3"}

HookBody(cb) == IF cb = "h2" THEN "throw" ELSE "return"

HookError(cb) == "Error(" \o cb \o ")"

\* Callbacks whose body uses the logger or writes to the record it was given.
ReentrantCallbacks ==
    {"hDisable", "hRegister", "hUnsubscribe", "hMutateArgs", "hMutateRecord"}

\* The callback that hRegister registers and hUnsubscribe unsubscribes.
Target == "h3"

\* What the body of a callback does before it returns:
\*   hDisable       logger.setEnabled(false)
\*   hRegister      logger.onLog(Target)
\*   hUnsubscribe   calls the closure an earlier logger.onLog(Target) returned
\*   hMutateArgs    meta.args[0] = 'tampered'
\*   hMutateRecord  meta.level = 'tampered'; meta.namespace = 'tampered'
HookEffect(cb) ==
    CASE cb = "hDisable"      -> "setEnabled(false)"
      [] cb = "hRegister"     -> "onLog"
      [] cb = "hUnsubscribe"  -> "unsubscribe"
      [] cb = "hMutateArgs"   -> "args[0] ="
      [] cb = "hMutateRecord" -> "meta.level ="
      [] OTHER                -> "none"

\* The argument lists of the emit functions.
ArgLists == {<<"msg">>, <<"a", "b">>}

\* The values setEnabled is called with.
EnabledValues == {"true", "false", "0", "1"}

\* The callbacks handed to group: what the body does with the logger
\* (nothing, logger.info('step'), logger.setEnabled(false|true)) and how it
\* ends: returning a value that is no Promise, returning a Promise, throwing.
GroupCallbacks ==
    [inner : {"none", "info", "disable", "enable"},
     ret   : {"value"},   value : {Undefined, "42"}]
    \cup
    [inner : {"none", "info", "disable", "enable"},
     ret   : {"promise"}, value : {"Promise"}]
    \cup
    \* an object with a then method that is no instance of Promise
    [inner : {"none", "info", "disable", "enable"},
     ret   : {"thenable"}, value : {"Thenable"}]
    \cup
    [inner : {"none", "info", "disable", "enable"},
     ret   : {"throw"},   value : {"Error(cb)"}]

Titles == {"T"}

\* How the Promise a group callback returned can settle.
Outcomes ==
    { [state |-> "fulfilled", value |-> "done"],
      [state |-> "rejected",  value |-> "Error(async)"] }

Pending == [state |-> "pending", value |-> Undefined]

VARIABLES
    showTimestamp,  \* createLogger's closure constants (lines 95-104)
    namespace,
    mergedStyles,
    minLevel,
    isEnabled,      \* let isEnabled
    hooks,          \* const hooks = new Set(), in insertion order
    unsubs,         \* the closures onLog returned: the callback each captured,
                    \* and whether the closure has been invoked yet
    groups,         \* group calls whose callback returned a Promise
    console,        \* the group nesting of the console: the decorations open,
                    \* innermost last, each with the position in groups of
                    \* the call that opened it (0 once that call is done),
                    \* and the groupEnd calls made with none open
    loggers,        \* two loggers made by two more createLogger calls: the
                    \* isEnabled and hooks of each closure, and the callbacks
                    \* an unsubscribe closure of it exists for
    call,           \* the last operation invoked, with its arguments
    pre,            \* isEnabled, hooks and unsubs when that operation began
    trace,          \* console calls and callback invocations it made, in order
    result          \* how it came back to its caller

vars == <<showTimestamp, namespace, mergedStyles, minLevel, isEnabled, hooks,
          unsubs, groups, console, loggers, call, pre, trace, result>>

config == <<showTimestamp, namespace, mergedStyles, minLevel>>

Snapshot ==
    [isEnabled |-> isEnabled, hooks |-> hooks, unsubs |-> unsubs, groups |-> groups,
     loggers |-> loggers, console |-> console]

Return(v) == [kind |-> "return", value |-> v]

Throw(e) == [kind |-> "throw", error |-> e]

\* ---------------------------------------------------------- createLogger

\* { ...DEFAULT_STYLES, ...styles }
\* The spread the other way round: { ...styles, ...DEFAULT_STYLES }.
MergeStyles_defaultsWin(styles) == [l \in LogLevel |-> DEFAULT_STYLES[l]]

MergeStyles(styles) ==
    [l \in LogLevel |->
        IF l \in DOMAIN styles THEN styles[l] ELSE DEFAULT_STYLES[l]]

\* Names that LOG_LEVELS, an object literal, answers to without having them
\* among its own six keys: it inherits them from Object.prototype.
InheritedKeys == {"toString", "constructor", "valueOf", "hasOwnProperty"}

\* What a value that is no number is in a comparison.  LOG_LEVELS[level] for
\* an inherited key is a function, and ToNumber of a function is NaN.
NaN == -1

\* a < b and a >= b of the language: both false as soon as one side is NaN.
LessThan(a, b) == a # NaN /\ b # NaN /\ a < b

AtLeast(a, b) == a # NaN /\ b # NaN /\ a >= b

\* const { level = 'debug' } = options; LOG_LEVELS[level] ?? 0
\* The 0 stands in only for undefined: an inherited key yields its function.
ResolveMinLevel(level) ==
    LET l == IF level = Undefined THEN "debug" ELSE level
    IN  CASE l \in DOMAIN LOG_LEVELS -> LOG_LEVELS[l]
          [] l \in InheritedKeys     -> NaN
          [] OTHER                   -> 0

Instances == {1, 2}

\* The console before any group call.
NoGroups == [open |-> <<>>, stray |-> 0]

\* let isEnabled = true; const hooks = new Set(); in a closure of its own
NewLogger == [isEnabled |-> TRUE, hooks |-> <<>>, issued |-> {}]

createLogger(options) ==
    /\ showTimestamp = options.showTimestamp
    /\ namespace = options.namespace
    /\ mergedStyles = MergeStyles(options.styles)
    /\ minLevel = ResolveMinLevel(options.level)
    /\ isEnabled = TRUE
    /\ hooks = <<>>
    /\ unsubs = <<>>
    /\ groups = <<>>
    /\ call = [op |-> "createLogger", options |-> options]
    /\ loggers = [i \in Instances |-> NewLogger]
    /\ console = NoGroups
    /\ pre = [isEnabled |-> TRUE, hooks |-> <<>>, unsubs |-> <<>>, groups |-> <<>>,
              loggers |-> [i \in Instances |-> NewLogger],
              console |-> NoGroups]
    /\ trace = <<>>
    /\ result = Return("logger")

Init == \E options \in OptionCases : createLogger(options)

\* The tokens a caller supplies: any string, the empty one included.
CallerTokens == {"color: orange;", ""}

\* Every partial style map: some of the six levels, each with a token.
StyleMaps == UNION {[S -> CallerTokens] : S \in SUBSET LogLevel}

StyleOptions ==
    [level : {Undefined}, namespace : {Undefined}, showTimestamp : {FALSE},
     styles : StyleMaps]

InitStyles == \E options \in StyleOptions : createLogger(options)

\* Options whose level is none of the six names.
InvalidLevelOptions ==
    [level : {"verbose", "", "toString", "constructor"}, namespace : {Undefined},
     showTimestamp : {FALSE}, styles : {<<>>}]

InitInvalidLevel == \E options \in InvalidLevelOptions : createLogger(options)

\* ------------------------------------------------------------------ emit

HookCall(cb, level, args) ==
    [ev |-> "hook", hook |-> cb, level |-> level,
     meta |-> [timestamp |-> "new Date()", namespace |-> namespace,
               level |-> level, args |-> args]]

\* One iteration of `for (const hook of hooks)`: the call, and the catch.
InvokeHook(cb, level, args) ==
    IF HookBody(cb) = "throw"
    THEN <<HookCall(cb, level, args), ConsoleWarn(HookError(cb))>>
    ELSE <<HookCall(cb, level, args)>>

\* A dispatch that an uncaught hook error ends: the hooks up to the first
\* throwing one.
Dispatch_abortOnThrow(hs, level, args) ==
    LET throwing == {i \in 1..Len(hs) : HookBody(hs[i]) = "throw"}
        last == IF throwing = {} THEN Len(hs)
                ELSE CHOOSE i \in throwing : \A j \in throwing : i <= j
    IN  [i \in 1..last |-> HookCall(hs[i], level, args)]

\* An array registry: hooks.push(callback).
AddHook_push(hs, callback) == Append(hs, callback)

\* hooks.add(callback)
AddHook(hs, callback) == SetAdd(hs, callback)

\* Removing the newest hook instead of the captured one.
DeleteHook_last(hs, callback) ==
    IF SetHas(hs, callback) THEN SubSeq(hs, 1, Len(hs) - 1) ELSE hs

\* hooks.clear() for hooks.delete(callback).
DeleteHook_clear(hs, callback) == <<>>

\* hooks.delete(callback), in the closure onLog returned
DeleteHook(hs, callback) == SetDelete(hs, callback)

\* The position of v in the ordered set s, 0 when it is not in it.
IndexOf(s, v) ==
    IF SetHas(s, v) THEN CHOOSE i \in 1..Len(s) : s[i] = v ELSE 0

\* A loop that looks at the enabled flag again before every hook.
MoreHooks_whileEnabled(st) == st.isEnabled /\ st.next <= Len(st.hooks)

\* Whether the Set iterator of `for (const hook of hooks)` has an entry left.
\* The iterator is live: it walks the entries of the Set as they are when
\* it advances.
MoreHooks(st) == st.next <= Len(st.hooks)

\* An index loop over an array that is spliced while it runs: the position
\* moves on by one whatever was removed.
AfterHook_indexLoop(st, cb) ==
    LET effect == HookEffect(cb)
    IN  [st EXCEPT
            !.isEnabled = IF effect = "setEnabled(false)" THEN ToBoolean("false") ELSE @,
            !.hooks = CASE effect = "onLog"       -> AddHook(@, Target)
                        [] effect = "unsubscribe" -> DeleteHook(@, Target)
                        [] OTHER                  -> @,
            !.next = st.next + 1,
            !.args = IF effect = "args[0] =" THEN [@ EXCEPT ![1] = "tampered"] ELSE @]

\* The state a hook's body leaves behind: the closure variables it wrote
\* through the logger, and the args array its record shares with the
\* records of the other hooks (line 122 stores the reference).  st.next is
\* the position of the entry the iterator yields next; an entry deleted
\* before that position moves the later ones down by one, an added entry
\* goes to the end.
AfterHook(st, cb) ==
    LET effect == HookEffect(cb)
        at == IndexOf(st.hooks, Target)
    IN  [st EXCEPT
            !.isEnabled = IF effect = "setEnabled(false)" THEN ToBoolean("false") ELSE @,
            !.hooks = CASE effect = "onLog"       -> AddHook(@, Target)
                        [] effect = "unsubscribe" -> DeleteHook(@, Target)
                        [] OTHER                  -> @,
            !.next = IF effect = "unsubscribe" /\ at # 0 /\ at <= st.next
                     THEN st.next ELSE st.next + 1,
            !.args = IF effect = "args[0] =" THEN [@ EXCEPT ![1] = "tampered"] ELSE @]

\* for (const hook of hooks) { try { hook(level, {...}) } catch { warn } }
RECURSIVE ForOfHooks(_, _)
ForOfHooks(st, level) ==
    IF ~MoreHooks(st) THEN st
    ELSE LET cb == st.hooks[st.next]
             called == [st EXCEPT !.trace = @ \o InvokeHook(cb, level, st.args)]
         IN  ForOfHooks(AfterHook(called, cb), level)

\* The loop from its start: the hooks and the flag it ends with, and what it
\* printed and called.
DispatchRun(enabled, hs, level, args) ==
    ForOfHooks([isEnabled |-> enabled, hooks |-> hs, next |-> 1,
                args |-> args, trace |-> <<>>], level)

Dispatch(hs, level, args) == DispatchRun(TRUE, hs, level, args).trace

\* `<=` for `<` in the gate.
Passes_strict(enabled, level) == enabled /\ ~(LOG_LEVELS[level] <= minLevel)

\* The gate without `!isEnabled`.
Passes_ignoreEnabled(enabled, level) == ~(LOG_LEVELS[level] < minLevel)

\* The gate of line 113, negated: whether emit goes on to print.
Passes(enabled, level) == enabled /\ ~LessThan(LOG_LEVELS[level], minLevel)

\* The console calls and hook invocations of emit(level, args).
emit(enabled, hs, level, args) ==
    IF ~Passes(enabled, level) THEN <<>>
    ELSE printStyledLog(level, mergedStyles[level], showTimestamp, namespace, args)
         \o Dispatch(hs, level, args)

\* The enabled flag and the hook set that emit(level, args) leaves behind.
emitState(enabled, hs, level, args) ==
    IF ~Passes(enabled, level) THEN [isEnabled |-> enabled, hooks |-> hs]
    ELSE LET st == DispatchRun(enabled, hs, level, args)
         IN  [isEnabled |-> st.isEnabled, hooks |-> st.hooks]

\* The closures a dispatch invoked: hUnsubscribe holds the first closure
\* that onLog returned for Target, if there is one.
InvokedBy(called, us) ==
    LET held == {h \in 1..Len(us) : us[h].callback = Target}
    IN  IF held = {} \/ ~(\E i \in 1..Len(called) : called[i] = "hUnsubscribe") THEN us
        ELSE [us EXCEPT ![CHOOSE h \in held : \A k \in held : h <= k].invoked = TRUE]

Emit(level, args) ==
    LET after == emitState(isEnabled, hooks, level, args)
        events == emit(isEnabled, hooks, level, args)
        called == SelectSeq(events, LAMBDA e : e.ev = "hook")
    IN  /\ isEnabled' = after.isEnabled
        /\ hooks' = after.hooks
        /\ unsubs' = InvokedBy([i \in 1..Len(called) |-> called[i].hook], unsubs)
        /\ call' = [op |-> "emit", level |-> level, args |-> args]
        /\ pre' = Snapshot
        /\ trace' = events
        /\ result' = Return(Undefined)
        /\ UNCHANGED <<config, console, loggers, groups>>

\* ------------------------------------------------------------ setEnabled

setEnabled(value) ==
    /\ isEnabled' = ToBoolean(value)
    /\ call' = [op |-> "setEnabled", value |-> value]
    /\ pre' = Snapshot
    /\ trace' = <<>>
    /\ result' = Return(Undefined)
    /\ UNCHANGED <<config, console, loggers, hooks, unsubs, groups>>

\* ----------------------------------------------------------------- onLog

onLog(callback) ==
    /\ Len(unsubs) < MaxOnLog
    /\ hooks' = AddHook(hooks, callback)
    /\ unsubs' = Append(unsubs, [callback |-> callback, invoked |-> FALSE])
    /\ call' = [op |-> "onLog", callback |-> callback]
    /\ pre' = Snapshot
    /\ trace' = <<>>
    /\ result' = Return(Len(unsubs) + 1)
    /\ UNCHANGED <<config, console, loggers, isEnabled, groups>>

\* Invoking the closure `() => hooks.delete(callback)` that onLog returned
\* as its h-th result.  Set.prototype.delete returns whether it removed.
Unsubscribe(h) ==
    /\ hooks' = DeleteHook(hooks, unsubs[h].callback)
    /\ unsubs' = [unsubs EXCEPT ![h].invoked = TRUE]
    /\ call' = [op |-> "unsubscribe", handle |-> h]
    /\ pre' = Snapshot
    /\ trace' = <<>>
    /\ result' = Return(IF SetHas(hooks, unsubs[h].callback) THEN "true" ELSE "false")
    /\ UNCHANGED <<config, console, loggers, isEnabled, groups>>

\* ----------------------------------------------------------------- group

\* The enabled flag after the callback's body has run.
EnabledAfter(enabled, hs, cb) ==
    CASE cb.inner = "disable" -> ToBoolean("false")
      [] cb.inner = "enable"  -> ToBoolean("true")
      [] cb.inner = "info"    -> emitState(enabled, hs, "info", <<"step">>).isEnabled
      [] OTHER                -> enabled

\* The hook set after the callback's body has run.
HooksAfter(enabled, hs, cb) ==
    IF cb.inner = "info" THEN emitState(enabled, hs, "info", <<"step">>).hooks ELSE hs

\* The callback run only when the decoration is rendered.
CallbackTrace_gated(enabled, hs, cb) ==
    IF enabled /\ LOG_LEVELS["log"] >= minLevel
    THEN <<[ev |-> "callback"]>>
         \o (IF cb.inner = "info" THEN emit(enabled, hs, "info", <<"step">>) ELSE <<>>)
    ELSE <<>>

\* callback(): its invocation, and the console calls and hook invocations
\* its body causes through the logger.
CallbackTrace(enabled, hs, cb) ==
    <<[ev |-> "callback"]>>
    \o (IF cb.inner = "info" THEN emit(enabled, hs, "info", <<"step">>) ELSE <<>>)

\* A gate on the rank of info, a level the callback may log at.
ShouldRender_info(enabled) == enabled /\ LOG_LEVELS["info"] >= minLevel

\* const shouldRender = isEnabled && LOG_LEVELS['log'] >= minLevel
ShouldRender(enabled) == enabled /\ AtLeast(LOG_LEVELS["log"], minLevel)

GroupLabel(title) ==
    LET parts == (IF showTimestamp THEN <<getTimestamp>> ELSE <<>>)
                 \o (IF namespace \notin {Undefined, ""}
                     THEN <<"[" \o namespace \o "]">> ELSE <<>>)
                 \o <<"[GROUP] " \o title>>
    IN  "%c" \o Join(parts, " ")

\* if (shouldRender) console.groupCollapsed(...)
GroupOpen(shouldRender, title) ==
    IF shouldRender THEN <<ConsoleGroupCollapsed(GroupLabel(title))>> ELSE <<>>

\* console.groupEnd() without its guard.
GroupClose_unguarded(shouldRender) == <<ConsoleGroupEnd>>

\* if (shouldRender) console.groupEnd()
GroupClose(shouldRender) ==
    IF shouldRender THEN <<ConsoleGroupEnd>> ELSE <<>>

\* Duck typing: whatever has a then method counts as a Promise.
IsPromise_thenable(cb) == cb.ret \in {"promise", "thenable"}

\* result instanceof Promise
IsPromise(cb) == cb.ret = "promise"

\* The catch clause without its groupEnd.
GroupCatch_noClose(shouldRender, err) ==
    [trace |-> <<>>, result |-> Throw(err), deferred |-> FALSE]

\* catch (err) { if (shouldRender) console.groupEnd(); throw err; }
GroupCatch(shouldRender, err) ==
    [trace |-> GroupClose(shouldRender), result |-> Throw(err), deferred |-> FALSE]

\* return result.finally(() => { if (shouldRender) console.groupEnd(); })
GroupDeferred(shouldRender) ==
    [trace |-> <<>>, result |-> Return("Promise.finally"), deferred |-> TRUE]

\* The plain return without its groupEnd.
GroupReturn_noClose(shouldRender, value) ==
    [trace |-> <<>>, result |-> Return(value), deferred |-> FALSE]

\* if (shouldRender) console.groupEnd(); return result;
GroupReturn(shouldRender, value) ==
    [trace |-> GroupClose(shouldRender), result |-> Return(value), deferred |-> FALSE]

\* The synchronous part of group(title, callback): what it prints and calls,
\* how it comes back, and whether it left a reaction on the callback's Promise.
group(enabled, hs, title, cb) ==
    LET shouldRender == ShouldRender(enabled)
        head == GroupOpen(shouldRender, title) \o CallbackTrace(enabled, hs, cb)
        tail == CASE cb.ret = "throw" -> GroupCatch(shouldRender, cb.value)
                  [] IsPromise(cb)    -> GroupDeferred(shouldRender)
                  [] OTHER            -> GroupReturn(shouldRender, cb.value)
    IN  [tail EXCEPT !.trace = head \o @]

\* console.groupCollapsed nests one level deeper; console.groupEnd leaves the
\* innermost open group, whichever call opened it, and does nothing when no
\* group is open.
RECURSIVE Play(_, _, _)
Play(con, events, owner) ==
    IF events = <<>> THEN con
    ELSE LET e == Head(events)
             next == CASE e.ev = "console.groupCollapsed" ->
                            [con EXCEPT !.open = Append(@, owner)]
                       [] e.ev = "console.groupEnd" /\ con.open # <<>> ->
                            [con EXCEPT !.open = SubSeq(@, 1, Len(@) - 1)]
                       [] e.ev = "console.groupEnd" /\ con.open = <<>> ->
                            [con EXCEPT !.stray = @ + 1]
                       [] OTHER -> con
         IN  Play(next, Tail(events), owner)

\* The g-th outstanding group call is done: the later ones move up by one,
\* and a decoration of it that is still open has no call left to close it.
Done(con, g) ==
    [con EXCEPT !.open = [i \in 1..Len(@) |->
        CASE @[i] = g -> 0
          [] @[i] > g -> @[i] - 1
          [] OTHER    -> @[i]]]

Group(title, cb) ==
    LET g == group(isEnabled, hooks, title, cb)
    IN  /\ g.deferred => Len(groups) < MaxGroups
        /\ console' = Play(console, g.trace, Len(groups) + 1)
        /\ isEnabled' = EnabledAfter(isEnabled, hooks, cb)
        /\ hooks' = HooksAfter(isEnabled, hooks, cb)
        /\ groups' = IF g.deferred
                     THEN Append(groups, [shouldRender |-> ShouldRender(isEnabled),
                                          promise |-> Pending])
                     ELSE groups
        /\ call' = [op |-> "group", title |-> title, callback |-> cb]
        /\ pre' = Snapshot
        /\ trace' = g.trace
        /\ result' = g.result
        /\ UNCHANGED <<config, loggers, unsubs>>

\* The Promise the callback of the g-th outstanding group returned settles.
Settle(g, outcome) ==
    /\ groups[g].promise = Pending
    /\ groups' = [groups EXCEPT ![g].promise = outcome]
    /\ call' = [op |-> "settle", group |-> g, outcome |-> outcome]
    /\ pre' = Snapshot
    /\ trace' = <<>>
    /\ result' = Return(Undefined)
    /\ UNCHANGED <<config, console, loggers, isEnabled, hooks, unsubs>>

RemoveAt(s, i) == SubSeq(s, 1, i - 1) \o SubSeq(s, i + 1, Len(s))

\* then(cleanup, cleanup) for finally(cleanup): the outcome is replaced by
\* the cleanup's return value.
FinallyOutcome_swallow(promise) == [state |-> "fulfilled", value |-> Undefined]

\* The reaction result.finally registered: it runs once the callback's
\* Promise has settled, and the Promise group returned then settles with the
\* same outcome (the reaction returns undefined and does not throw).
FinallyOutcome(promise) == promise

\* The microtask that runs that reaction for the g-th outstanding group.
Finally(g) ==
    /\ groups[g].promise # Pending
    /\ groups' = RemoveAt(groups, g)
    /\ call' = [op |-> "finally", group |-> g]
    /\ pre' = Snapshot
    /\ trace' = GroupClose(groups[g].shouldRender)
    /\ console' = Done(Play(console, GroupClose(groups[g].shouldRender), g), g)
    /\ result' = [kind |-> "settled", promise |-> FinallyOutcome(groups[g].promise)]
    /\ UNCHANGED <<config, loggers, isEnabled, hooks, unsubs>>

\* ------------------------------------------------------- two instances

\* The callbacks handed to the onLog of either instance.
InstanceCallbacks == {"h1", "h3"}

\* One isEnabled and one hooks for the whole module, not one per call.
CellOf_shared(i) == 1

\* The closure the methods of instance i read and write: the one its own
\* createLogger call made (lines 102 and 105 are inside the function).
CellOf(i) == i

InstanceSetEnabled(i, value) ==
    /\ loggers' = [loggers EXCEPT ![CellOf(i)].isEnabled = ToBoolean(value)]
    /\ call' = [op |-> "logger.setEnabled", instance |-> i, value |-> value]
    /\ pre' = Snapshot
    /\ trace' = <<>>
    /\ result' = Return(Undefined)
    /\ UNCHANGED <<config, console, isEnabled, hooks, unsubs, groups>>

InstanceOnLog(i, callback) ==
    /\ loggers' = [loggers EXCEPT
                      ![CellOf(i)].hooks = AddHook(@, callback),
                      ![i].issued = @ \cup {callback}]
    /\ call' = [op |-> "logger.onLog", instance |-> i, callback |-> callback]
    /\ pre' = Snapshot
    /\ trace' = <<>>
    /\ result' = Return("unsubscribe")
    /\ UNCHANGED <<config, console, isEnabled, hooks, unsubs, groups>>

\* Invoking a closure that the onLog of instance i returned for callback.
InstanceUnsubscribe(i, callback) ==
    /\ callback \in loggers[i].issued
    /\ loggers' = [loggers EXCEPT ![CellOf(i)].hooks = DeleteHook(@, callback)]
    /\ call' = [op |-> "logger.unsubscribe", instance |-> i, callback |-> callback]
    /\ pre' = Snapshot
    /\ trace' = <<>>
    /\ result' = Return(IF SetHas(loggers[CellOf(i)].hooks, callback)
                        THEN "true" ELSE "false")
    /\ UNCHANGED <<config, console, isEnabled, hooks, unsubs, groups>>

InstanceEmit(i, level, args) ==
    LET cell == loggers[CellOf(i)]
        after == emitState(cell.isEnabled, cell.hooks, level, args)
    IN  /\ loggers' = [loggers EXCEPT ![CellOf(i)].isEnabled = after.isEnabled,
                                      ![CellOf(i)].hooks = after.hooks]
        /\ call' = [op |-> "logger.emit", instance |-> i, level |-> level, args |-> args]
        /\ pre' = Snapshot
        /\ trace' = emit(cell.isEnabled, cell.hooks, level, args)
        /\ result' = Return(Undefined)
        /\ UNCHANGED <<config, console, isEnabled, hooks, unsubs, groups>>

\* Two loggers made with the same options, used in any order.
NextInstances ==
    \/ \E i \in Instances, level \in LogLevel, args \in ArgLists : InstanceEmit(i, level, args)
    \/ \E i \in Instances, value \in EnabledValues : InstanceSetEnabled(i, value)
    \/ \E i \in Instances, callback \in InstanceCallbacks : InstanceOnLog(i, callback)
    \/ \E i \in Instances, callback \in InstanceCallbacks : InstanceUnsubscribe(i, callback)

SpecInstances == Init /\ [][NextInstances]_vars

\* The hook registry and the emit functions.
NextRegistry ==
    \/ \E level \in LogLevel, args \in ArgLists : Emit(level, args)
    \/ \E value \in EnabledValues : setEnabled(value)
    \/ \E callback \in Callbacks : onLog(callback)
    \/ \E h \in 1..Len(unsubs) : Unsubscribe(h)

\* The group lifecycle, with the emit functions its callbacks use.
NextGroup ==
    \/ \E level \in LogLevel, args \in ArgLists : Emit(level, args)
    \/ \E value \in EnabledValues : setEnabled(value)
    \/ \E title \in Titles, cb \in GroupCallbacks : Group(title, cb)
    \/ \E g \in 1..Len(groups), outcome \in Outcomes : Settle(g, outcome)
    \/ \E g \in 1..Len(groups) : Finally(g)

\* Calls in flight while the enabled flag is switched: by a hook during the
\* dispatch, by a group callback, or between a group call and its reaction.
InFlightCallbacks == {"h1", "hDisable"}

\* A logger that renders groups and one, with minimum level info, that does not.
InFlightOptions == {o \in OptionCases : o.level \in {Undefined, "info"}}

\* Callbacks that return at once or return a Promise, with every body.
InFlightGroupCallbacks ==
    {cb \in GroupCallbacks : cb.ret \in {"value", "promise"} /\ cb.value # "42"}

InitInFlight == \E options \in InFlightOptions : createLogger(options)

NextInFlight ==
    \/ \E level \in {"warn"}, args \in {<<"msg">>} : Emit(level, args)
    \/ \E value \in {"true", "0"} : setEnabled(value)
    \/ \E callback \in InFlightCallbacks : onLog(callback)
    \/ \E title \in Titles, cb \in InFlightGroupCallbacks : Group(title, cb)
    \/ \E g \in 1..Len(groups), outcome \in {o \in Outcomes : o.state = "fulfilled"} : Settle(g, outcome)
    \/ \E g \in 1..Len(groups) : Finally(g)

SpecInFlight == InitInFlight /\ [][NextInFlight]_vars

\* Hooks that change the hook set while emit walks it.
LiveCallbacks == {"hRegister", "hUnsubscribe", Target}

NextLive ==
    \/ \E level \in {"debug", "warn"}, args \in {<<"msg">>} : Emit(level, args)
    \/ \E value \in EnabledValues : setEnabled(value)
    \/ \E callback \in LiveCallbacks : onLog(callback)
    \/ \E h \in 1..Len(unsubs) : Unsubscribe(h)

SpecLive == Init /\ [][NextLive]_vars

\* A logger made with an unrecognized level: its emit functions and group.
NextInvalidLevel ==
    \/ \E level \in LogLevel, args \in ArgLists : Emit(level, args)
    \/ \E value \in EnabledValues : setEnabled(value)
    \/ \E title \in Titles, cb \in GroupCallbacks : Group(title, cb)
    \/ \E g \in 1..Len(groups), outcome \in Outcomes : Settle(g, outcome)
    \/ \E g \in 1..Len(groups) : Finally(g)

SpecInvalidLevel == InitInvalidLevel /\ [][NextInvalidLevel]_vars

\* Hooks that write to the record they were given.
RecordCallbacks == {"hMutateArgs", "hMutateRecord", "h1"}

NextRecord ==
    \/ \E level \in LogLevel, args \in ArgLists : Emit(level, args)
    \/ \E value \in EnabledValues : setEnabled(value)
    \/ \E callback \in RecordCallbacks : onLog(callback)
    \/ \E h \in 1..Len(unsubs) : Unsubscribe(h)

SpecRecord == Init /\ [][NextRecord]_vars

\* A logger made with a partial style map, and the calls that use the map.
NextStyles ==
    \/ \E level \in LogLevel, args \in {<<"msg">>} : Emit(level, args)
    \/ \E value \in {"true", "false"} : setEnabled(value)
    \/ \E callback \in {"h1"} : onLog(callback)
    \/ \E title \in Titles, cb \in {c \in GroupCallbacks : c.inner = "info" /\ c.ret = "value"} :
          Group(title, cb)

SpecStyles == InitStyles /\ [][NextStyles]_vars

Next == NextRegistry \/ NextGroup

\* The whole logger.
Spec == Init /\ [][Next]_vars

\* The registry and the group lifecycle share only isEnabled and the closure
\* constants, so the state space of Spec is the product of theirs.  The
\* properties of each are checked on its own specification.
SpecRegistry == Init /\ [][NextRegistry]_vars

SpecGroup == Init /\ [][NextGroup]_vars

\* ============================================================ properties

\* The events of one kind the last operation produced, in order.
Events(kind) == SelectSeq(trace, LAMBDA e : e.ev = kind)

\* The callbacks the last operation invoked as hooks, in order.
HooksInvoked == [i \in 1..Len(Events("hook")) |-> Events("hook")[i].hook]

\* The last operation was an emit that began enabled, at or above the minimum.
PassingEmit ==
    /\ call.op = "emit"
    /\ pre.isEnabled
    /\ LOG_LEVELS[call.level] >= minLevel

\* The last operation was an emit that began disabled or below the minimum.
FilteredEmit ==
    /\ call.op = "emit"
    /\ (~pre.isEnabled \/ LOG_LEVELS[call.level] < minLevel)

NoDuplicates(s) == \A i, j \in 1..Len(s) : s[i] = s[j] => i = j

Without(s, v) == SelectSeq(s, LAMBDA x : x # v)

\* C1: a passing emit makes exactly one print call and invokes every
\* registered hook exactly once, in registration order, each with the emitted
\* level as its first argument and as the level field of its record.
C1_PassingEmitPrintsOnceAndCallsEveryHook ==
    PassingEmit =>
        /\ Len(Events("console.log")) = 1
        /\ trace[1].ev = "console.log"
        /\ HooksInvoked = pre.hooks
        /\ \A i \in 1..Len(Events("hook")) :
              /\ Events("hook")[i].level = call.level
              /\ Events("hook")[i].meta.level = call.level

\* A passing emit exactly at the minimum rank, above debug, with three hooks.
C1_Witness ==
    /\ PassingEmit
    /\ minLevel > 0
    /\ LOG_LEVELS[call.level] = minLevel
    /\ Len(pre.hooks) = 3
    /\ Len(Events("hook")) = 3

\* C2: an emit made while disabled, or below the minimum rank, makes no
\* console call and invokes no hook, whatever setEnabled, onLog and
\* unsubscribe calls came before.
C2_FilteredEmitDoesNothing ==
    FilteredEmit => trace = <<>>

\* A filtered emit with hooks registered, after an unsubscribe was used.
C2_Witness ==
    /\ FilteredEmit
    /\ ~pre.isEnabled
    /\ Len(hooks) = 2
    /\ \E h \in 1..Len(unsubs) : unsubs[h].invoked

\* C3: a throwing hook is reported by one console.warn carrying its error,
\* right after its invocation; the hooks registered after it are still
\* invoked, and emit returns normally.
C3_ThrowingHookIsIsolated ==
    PassingEmit =>
        /\ result = Return(Undefined)
        /\ Len(Events("console.warn")) =
               Cardinality({i \in 1..Len(pre.hooks) : HookBody(pre.hooks[i]) = "throw"})
        /\ \A k \in 1..Len(trace) :
              (trace[k].ev = "hook" /\ HookBody(trace[k].hook) = "throw") =>
                  /\ k < Len(trace)
                  /\ trace[k + 1].ev = "console.warn"
                  /\ trace[k + 1].args = <<"[Logger] Hook error:", HookError(trace[k].hook)>>
        /\ \A i, j \in 1..Len(pre.hooks) :
              (i < j /\ HookBody(pre.hooks[i]) = "throw") =>
                  \E k, m \in 1..Len(trace) :
                      /\ k < m
                      /\ trace[k].ev = "hook" /\ trace[k].hook = pre.hooks[i]
                      /\ trace[m].ev = "hook" /\ trace[m].hook = pre.hooks[j]

\* A passing emit whose throwing hook was registered before another hook.
C3_Witness ==
    /\ PassingEmit
    /\ Len(pre.hooks) >= 2
    /\ HookBody(pre.hooks[1]) = "throw"
    /\ Len(Events("console.warn")) = 1
    /\ trace[Len(trace)].ev = "hook"

\* C4: invoking an unsubscribe closure removes its callback and nothing else
\* from the hook set, the rest keeping their order; a passing emit invokes
\* exactly the hooks the set then holds, in that order.
C4_UnsubscribeRemovesExactlyItsHook ==
    /\ call.op = "unsubscribe" =>
          /\ hooks = Without(pre.hooks, unsubs[call.handle].callback)
          /\ \A cb \in Callbacks :
                cb # unsubs[call.handle].callback =>
                    (SetHas(hooks, cb) <=> SetHas(pre.hooks, cb))
    /\ PassingEmit => HooksInvoked = hooks

\* The middle one of three hooks has just been unsubscribed.
C4_Witness ==
    /\ call.op = "unsubscribe"
    /\ Len(pre.hooks) = 3
    /\ pre.hooks[2] = unsubs[call.handle].callback
    /\ hooks = <<pre.hooks[1], pre.hooks[3]>>

\* The last operation invoked an unsubscribe closure that had been invoked
\* before.
RepeatedUnsubscribe ==
    /\ call.op = "unsubscribe"
    /\ pre.unsubs[call.handle].invoked

\* C5 as stated: every invocation of an unsubscribe closure after its first
\* leaves the hook set unchanged, whatever happened in between.
C5_RepeatedUnsubscribeIsNoOp ==
    RepeatedUnsubscribe => hooks = pre.hooks

\* C5, amended: an invocation after the first leaves the hook set unchanged
\* unless the callback is registered at that moment (onLog was called again
\* with the same reference after the earlier removal); it then removes that
\* callback and nothing else.
C5_RepeatedUnsubscribeRemovesOnlyReRegistered ==
    RepeatedUnsubscribe =>
        /\ ~SetHas(pre.hooks, unsubs[call.handle].callback) => hooks = pre.hooks
        /\ SetHas(pre.hooks, unsubs[call.handle].callback) =>
              /\ \E h \in 1..Len(pre.unsubs) :
                    /\ h > call.handle
                    /\ pre.unsubs[h].callback = unsubs[call.handle].callback
              /\ hooks = Without(pre.hooks, unsubs[call.handle].callback)
        /\ result = Return(IF hooks = pre.hooks THEN "false" ELSE "true")

\* A closure is invoked again with another hook registered and its own
\* callback absent: nothing changes.
C5_Witness ==
    /\ RepeatedUnsubscribe
    /\ Len(pre.hooks) >= 1
    /\ ~SetHas(pre.hooks, unsubs[call.handle].callback)
    /\ hooks = pre.hooks

\* C10: registering a callback that is already registered changes nothing:
\* the hook set holds each callback once, at the place of its first
\* registration; a passing emit invokes it once; one unsubscribe removes it.
C10_DoubleRegistrationIsIdempotent ==
    /\ NoDuplicates(hooks)
    /\ (call.op = "onLog" /\ SetHas(pre.hooks, call.callback)) => hooks = pre.hooks
    /\ (call.op = "onLog" /\ ~SetHas(pre.hooks, call.callback)) =>
          hooks = pre.hooks \o <<call.callback>>
    /\ PassingEmit =>
          \A cb \in Callbacks :
              Len(SelectSeq(HooksInvoked, LAMBDA x : x = cb)) =
                  (IF SetHas(pre.hooks, cb) THEN 1 ELSE 0)
    /\ call.op = "unsubscribe" => ~SetHas(hooks, unsubs[call.handle].callback)

\* A callback registered, then another, then the first again: a passing emit
\* invokes the twice-registered one once, and first.
C10_Witness ==
    /\ PassingEmit
    /\ Len(unsubs) = 3
    /\ unsubs[1].callback = unsubs[3].callback
    /\ unsubs[2].callback # unsubs[1].callback
    /\ \A h \in 1..3 : ~unsubs[h].invoked
    /\ HooksInvoked = <<unsubs[1].callback, unsubs[2].callback>>

\* The last operation was a group call.
GroupCall == call.op = "group"

\* The gate of the decoration, on the state the group call began in.
GateOpen == pre.isEnabled /\ LOG_LEVELS["log"] >= minLevel

\* The trace is one open call, then exactly one callback invocation (and
\* whatever its body logged), then one close call.
Bracketed ==
    /\ Len(Events("console.groupCollapsed")) = 1
    /\ Len(Events("console.groupEnd")) = 1
    /\ Len(Events("callback")) = 1
    /\ trace[1].ev = "console.groupCollapsed"
    /\ trace[2].ev = "callback"
    /\ trace[Len(trace)].ev = "console.groupEnd"

Undecorated ==
    /\ Len(Events("console.groupCollapsed")) = 0
    /\ Len(Events("console.groupEnd")) = 0

\* C6: group with a callback that returns a value that is no Promise returns
\* that value; with the gate open, one open call and one close call bracket
\* the single invocation of the callback.
C6_ImmediateValueIsReturnedAndBracketed ==
    (GroupCall /\ call.callback.ret = "value") =>
        /\ result = Return(call.callback.value)
        /\ groups = pre.groups
        /\ GateOpen => Bracketed

\* A rendered group whose callback logged and returned 42.
C6_Witness ==
    /\ GroupCall
    /\ call.callback.ret = "value"
    /\ call.callback.value = "42"
    /\ call.callback.inner = "info"
    /\ GateOpen
    /\ Len(trace) = 4
    /\ trace[3].ev = "console.log"

\* C7: group with a callback that returns a Promise makes no close call
\* before returning; the close call is made by the reaction that runs once
\* that Promise has settled, and the Promise group returned settles with the
\* same state and the same value or reason.
C7_DeferredGroupClosesAfterSettling ==
    /\ (GroupCall /\ call.callback.ret = "promise") =>
          /\ Len(Events("console.groupEnd")) = 0
          /\ Len(Events("console.groupCollapsed")) = (IF GateOpen THEN 1 ELSE 0)
          /\ result = Return("Promise.finally")
          /\ groups = Append(pre.groups, [shouldRender |-> GateOpen, promise |-> Pending])
    /\ call.op = "settle" => trace = <<>>
    /\ call.op = "finally" =>
          /\ pre.groups[call.group].promise \in Outcomes
          /\ result = [kind |-> "settled", promise |-> pre.groups[call.group].promise]
          /\ trace = (IF pre.groups[call.group].shouldRender
                      THEN <<ConsoleGroupEnd>> ELSE <<>>)
    /\ call.op \in {"emit", "setEnabled"} => Len(Events("console.groupEnd")) = 0

\* The reaction of a rendered group ran after its Promise was rejected.
C7_Witness ==
    /\ call.op = "finally"
    /\ pre.groups[call.group].shouldRender
    /\ pre.groups[call.group].promise.state = "rejected"
    /\ result.promise.state = "rejected"
    /\ trace = <<ConsoleGroupEnd>>

\* C8: group with a callback that throws raises the same error to its
\* caller; a decoration that was opened is closed exactly once, as the last
\* thing before the error leaves group, and none is closed that was not
\* opened.
C8_SynchronousThrowClosesThenRethrows ==
    (GroupCall /\ call.callback.ret = "throw") =>
        /\ result = Throw(call.callback.value)
        /\ groups = pre.groups
        /\ GateOpen => Bracketed
        /\ ~GateOpen => Undecorated

\* A rendered group whose callback threw.
C8_Witness ==
    /\ GroupCall
    /\ call.callback.ret = "throw"
    /\ GateOpen
    /\ result.kind = "throw"
    /\ trace[Len(trace)].ev = "console.groupEnd"

\* C9: every group call invokes its callback exactly once before it returns,
\* rendered or not: what the body does through the logger takes effect, and
\* its value, its Promise's outcome or its error reaches the caller.
C9_CallbackAlwaysRunsOnce ==
    /\ GroupCall =>
          /\ Len(Events("callback")) = 1
          /\ ~GateOpen => (Undecorated /\ trace[1].ev = "callback")
          /\ call.callback.inner = "disable" => ~isEnabled
          /\ call.callback.inner = "enable" => isEnabled
          /\ call.callback.inner \in {"none", "info"} => isEnabled = pre.isEnabled
          /\ Len(Events("console.log")) =
                (IF /\ call.callback.inner = "info"
                    /\ pre.isEnabled
                    /\ LOG_LEVELS["info"] >= minLevel
                 THEN 1 ELSE 0)
          /\ call.callback.ret = "value" => result = Return(call.callback.value)
          /\ call.callback.ret = "throw" => result = Throw(call.callback.value)
          /\ call.callback.ret = "promise" => Len(groups) = Len(pre.groups) + 1
    /\ call.op = "finally" =>
          result.promise = pre.groups[call.group].promise

\* With minimum level info no decoration is rendered, and the callback's
\* logger.info still prints.
C9_Witness ==
    /\ GroupCall
    /\ pre.isEnabled
    /\ ~GateOpen
    /\ call.callback.inner = "info"
    /\ call.callback.ret = "throw"
    /\ Len(Events("console.log")) = 1
    /\ Len(Events("callback")) = 1
    /\ result.kind = "throw"

\* The number of calls of one console function in the last operation.
Count(kind) == Len(Events(kind))

\* The callback of the last group call returned a promise-like value: a
\* Promise, or another object with a then method.
ReturnsPromiseLike == GroupCall /\ call.callback.ret \in {"promise", "thenable"}

\* C12: when the callback returns a promise-like value, native Promise or
\* not, group makes no close call before it returns: the decoration stays
\* open until that value settles.
C12_PromiseLikeKeepsGroupOpen ==
    ReturnsPromiseLike => Len(Events("console.groupEnd")) = 0

\* C12, amended: only an instance of Promise keeps the group open.  A group
\* call whose callback returned one makes no close call and leaves a
\* reaction behind; a callback that returned any other value, a promise-like
\* object of another class included, has its decoration closed before group
\* returns, and group returns that very value.
C12_OnlyPromiseInstancesKeepGroupOpen ==
    /\ (GroupCall /\ call.callback.ret = "promise") =>
          /\ Count("console.groupEnd") = 0
          /\ Len(groups) = Len(pre.groups) + 1
    /\ (GroupCall /\ call.callback.ret = "thenable") =>
          /\ result = Return(call.callback.value)
          /\ groups = pre.groups
          /\ GateOpen => Bracketed
          /\ ~GateOpen => Undecorated

\* A rendered group whose callback returned a thenable: closed at once.
C12_Witness ==
    /\ GroupCall
    /\ call.callback.ret = "thenable"
    /\ GateOpen
    /\ result = Return("Thenable")
    /\ trace[Len(trace)].ev = "console.groupEnd"

\* C13: setEnabled does not reach back into a call in flight.  An emit that
\* passed the gate invokes every registered hook also when one of them calls
\* setEnabled(false); a group call opens and closes its decoration by the
\* enabled state it began in, whatever its callback sets, and the reaction
\* of a deferred group closes by what the group call decided.
C13_SetEnabledDoesNotReachBack ==
    /\ PassingEmit =>
          /\ HooksInvoked = pre.hooks
          /\ Count("console.log") = 1
          /\ isEnabled = ~SetHas(pre.hooks, "hDisable")
    /\ GroupCall =>
          /\ Count("console.groupCollapsed") = (IF GateOpen THEN 1 ELSE 0)
          /\ call.callback.ret # "promise" =>
                Count("console.groupEnd") = (IF GateOpen THEN 1 ELSE 0)
          /\ call.callback.ret = "promise" =>
                /\ Count("console.groupEnd") = 0
                /\ groups[Len(groups)].shouldRender = GateOpen
          /\ (call.callback.inner = "info" /\ pre.isEnabled
                /\ LOG_LEVELS["info"] >= minLevel) => HooksInvoked = pre.hooks
    /\ call.op = "settle" =>
          groups[call.group].shouldRender = pre.groups[call.group].shouldRender
    /\ call.op = "finally" =>
          Count("console.groupEnd") = (IF pre.groups[call.group].shouldRender THEN 1 ELSE 0)
    /\ (call.op \in {"emit", "setEnabled", "onLog"} /\ Len(groups) > 0) =>
          \A g \in 1..Len(groups) : groups[g].shouldRender = pre.groups[g].shouldRender

\* A rendered group whose callback logs: the first hook disables the logger,
\* the second hook is invoked all the same, and the decoration is closed
\* although the flag is off by then.
C13_Witness ==
    /\ GroupCall
    /\ GateOpen
    /\ call.callback.inner = "info"
    /\ call.callback.ret = "value"
    /\ pre.hooks = <<"hDisable", "h1">>
    /\ HooksInvoked = <<"hDisable", "h1">>
    /\ ~isEnabled
    /\ trace[Len(trace)].ev = "console.groupEnd"

\* Whether a comes before b in the ordered set s.
Before(s, a, b) == SetHas(s, a) /\ SetHas(s, b) /\ IndexOf(s, a) < IndexOf(s, b)

C15_GroupGateIsRankOfLog ==
    GroupCall =>
        /\ Count("console.groupCollapsed") = (IF pre.isEnabled /\ 1 >= minLevel THEN 1 ELSE 0)
        /\ Count("console.groupCollapsed") = 1 => trace[1].ev = "console.groupCollapsed"
        /\ Count("console.groupCollapsed") = 0 => Count("console.groupEnd") = 0
        /\ (pre.isEnabled /\ minLevel = 2 /\ call.callback.inner = "info") =>
              (Count("console.log") = 1 /\ Undecorated)

\* With minimum level info the callback's info emit printed, undecorated.
C15_Witness ==
    /\ GroupCall
    /\ pre.isEnabled
    /\ minLevel = LOG_LEVELS["info"]
    /\ call.callback.inner = "info"
    /\ call.callback.ret = "value"
    /\ Count("console.log") = 1
    /\ Count("console.groupCollapsed") = 0
    /\ Count("console.groupEnd") = 0

\* The outstanding group calls that opened a decoration.
Rendered == {g \in 1..Len(groups) : groups[g].shouldRender}

\* What every state and every step keeps of the balance: no close call is
\* made with no decoration open, a group call that returns at once or throws
\* makes as many close calls as open calls, a deferred one makes no close
\* call before it returns and its reaction makes one exactly when the call
\* had opened, and nothing else opens or closes.
StepsBalanced ==
    /\ console.stray = 0
    /\ Len(console.open) = Cardinality(Rendered)
    /\ \A i \in 1..Len(console.open) : console.open[i] <= Len(groups)
    /\ (GroupCall /\ call.callback.ret # "promise") =>
          /\ Count("console.groupCollapsed") <= 1
          /\ Count("console.groupEnd") = Count("console.groupCollapsed")
          /\ console = pre.console
    /\ (GroupCall /\ call.callback.ret = "promise") =>
          /\ Count("console.groupEnd") = 0
          /\ Count("console.groupCollapsed") =
                (IF groups[Len(groups)].shouldRender THEN 1 ELSE 0)
    /\ call.op = "finally" =>
          /\ Count("console.groupEnd") = (IF pre.groups[call.group].shouldRender THEN 1 ELSE 0)
          /\ Count("console.groupCollapsed") = 0
          /\ Len(groups) = Len(pre.groups) - 1
    /\ call.op \in {"emit", "setEnabled", "settle"} =>
          (Count("console.groupEnd") = 0 /\ Count("console.groupCollapsed") = 0)

\* C16: the decoration calls stay balanced: the close calls never outnumber
\* the open calls, a group call that opened closes exactly once, one that
\* did not open never closes, and as soon as every callback has returned,
\* thrown or settled, no decoration is open.
C16_BalancedOnceSettled ==
    /\ StepsBalanced
    /\ (\A g \in 1..Len(groups) : groups[g].promise # Pending) => console.open = <<>>

\* C16, amended: the same balance, with no decoration open once every
\* callback has returned or thrown and the reaction of every deferred group
\* call has run; between the settling of a Promise and its reaction the
\* decoration is still open.
C16_BalancedOnceReactionsRan ==
    /\ StepsBalanced
    /\ groups = <<>> => console.open = <<>>
    /\ \A g \in 1..Len(groups) :
          (groups[g].shouldRender /\ groups[g].promise # Pending) => console.open # <<>>

\* The reaction of the last outstanding group closed the last decoration,
\* after two deferred groups had been open together.
C16_Witness ==
    /\ call.op = "finally"
    /\ pre.groups[call.group].shouldRender
    /\ Len(pre.console.open) = 1
    /\ groups = <<>>
    /\ console.open = <<>>
    /\ pre.console.open = <<0>>

\* C17: the close call of a deferred group call closes the decoration that
\* this group call opened: when the reaction runs, the innermost decoration
\* open on the console is its own, in whatever order the Promises settle.
C17_CloseClosesOwnDecoration ==
    (call.op = "finally" /\ pre.groups[call.group].shouldRender) =>
        pre.console.open[Len(pre.console.open)] = call.group

\* C18: a logger made with a minimum level that is none of the six names
\* behaves like one with minimum rank 0: creation returns a logger, every
\* level prints while the logger is enabled, and group opens its decoration
\* while the logger is enabled.
C18_UnrecognizedLevelIsRankZero ==
    /\ call.op = "createLogger" => result = Return("logger")
    /\ call.op = "emit" => Count("console.log") = (IF pre.isEnabled THEN 1 ELSE 0)
    /\ GroupCall => Count("console.groupCollapsed") = (IF pre.isEnabled THEN 1 ELSE 0)

\* C19: in one emit every hook receives a record with the arguments the
\* caller passed, the logger's namespace and the emitted level, whatever an
\* earlier hook of the same dispatch did to the record it was given.
C19_EveryHookReceivesTheCallersRecord ==
    PassingEmit =>
        \A k \in 1..Len(Events("hook")) :
            LET received == Events("hook")[k]
            IN  /\ received.level = call.level
                /\ received.meta.level = call.level
                /\ received.meta.namespace = namespace
                /\ received.meta.args = call.args

InstanceCall ==
    call.op \in {"logger.emit", "logger.setEnabled", "logger.onLog", "logger.unsubscribe"}

\* C11: a method call on one instance leaves the enabled flag and the hook
\* set of the other instance as they were, takes its effect on its own
\* instance, and an emit invokes the hooks of its own instance only.
C11_InstancesShareNoState ==
    InstanceCall =>
        LET own == call.instance
            before == pre.loggers[own]
        IN  /\ \A j \in Instances \ {own} :
                  /\ loggers[j].isEnabled = pre.loggers[j].isEnabled
                  /\ loggers[j].hooks = pre.loggers[j].hooks
            /\ call.op = "logger.setEnabled" =>
                  loggers[own].isEnabled = ToBoolean(call.value)
            /\ call.op = "logger.onLog" => SetHas(loggers[own].hooks, call.callback)
            /\ call.op = "logger.unsubscribe" => ~SetHas(loggers[own].hooks, call.callback)
            /\ call.op = "logger.emit" =>
                  /\ \A k \in 1..Len(HooksInvoked) : SetHas(before.hooks, HooksInvoked[k])
                  /\ (before.isEnabled /\ LOG_LEVELS[call.level] >= minLevel)
                        => HooksInvoked = before.hooks
                  /\ ~before.isEnabled => trace = <<>>

\* Instance 1 emits with its own hook while instance 2, disabled, holds
\* another hook only.
C11_Witness ==
    /\ call.op = "logger.emit"
    /\ call.instance = 1
    /\ loggers[1].isEnabled
    /\ ~loggers[2].isEnabled
    /\ loggers[1].hooks = <<"h1">>
    /\ loggers[2].hooks = <<"h3">>
    /\ HooksInvoked = <<"h1">>

====
